---- MODULE Spec2Model ----
(***************************************************************************)
(* Model of the Krisp-to-Zapier webhook receiver (src/app.py): the task    *)
(* parser, the task cleaner, the forwarder and the /webhook pipeline with  *)
(* its two database transactions.                                          *)
(*                                                                         *)
(* Text is a sequence of tokens.  A token is one whitespace character      *)
(* ("SP" a blank, "NL" a newline), one punctuation character, or a whole   *)
(* word of \w characters.  No word token contains "to", "task" or "owner"  *)
(* as a proper part, so the regular expressions of app.py can only start   *)
(* and stop a literal at a token boundary.                                 *)
(***************************************************************************)
EXTENDS Integers, Sequences, FiniteSets, TLC

(***************************************************************************)
(* Bounds of the model.                                                    *)
(***************************************************************************)
\* number of concurrent /webhook invocations
NumReqs == 2
\* number of fragments a generated parser input is built from
MaxFrags == 3
\* number of owner prefixes a generated cleaner input starts with
MaxPrefixes == 3
\* number of items a generated dict or list payload holds
MaxItems == 2

(***************************************************************************)
(* Characters.                                                             *)
(***************************************************************************)
IsSpace(c) == c \in {"SP", "NL"}

WordTokens ==
    {"Bob", "bob", "BOB", "Carol", "carol", "to", "To", "TO", "Task", "task",
     "Owner", "owner", "call", "Call", "send", "Send", "krisp_blob", "notes",
     "None", "5"}

IsWord(c) == c \in WordTokens

\* str.lower() of one token (what re.IGNORECASE compares)
Lower(c) ==
    CASE c \in {"Bob", "BOB"} -> "bob"
      [] c = "Carol" -> "carol"
      [] c \in {"To", "TO"} -> "to"
      [] c = "Task" -> "task"
      [] c = "Owner" -> "owner"
      [] c = "Call" -> "call"
      [] c = "Send" -> "send"
      [] c = "None" -> "none"
      [] OTHER -> c

\* a token with its first character upper-cased (cleaned[0].upper() + cleaned[1:])
UpperFirst(c) ==
    CASE c = "bob" -> "Bob"
      [] c = "carol" -> "Carol"
      [] c = "to" -> "To"
      [] c = "task" -> "Task"
      [] c = "owner" -> "Owner"
      [] c = "call" -> "Call"
      [] c = "send" -> "Send"
      [] c = "krisp_blob" -> "Krisp_blob"
      [] c = "notes" -> "Notes"
      [] OTHER -> c

LowerSeq(t) == [i \in 1..Len(t) |-> Lower(t[i])]

\* the token at position p, "EOT" past either end
Tok(t, p) == IF p \in 1..Len(t) THEN t[p] ELSE "EOT"

\* t[a..b-1]
Slice(t, a, b) == [i \in 1..(b - a) |-> t[a + i - 1]]

(***************************************************************************)
(* Regular-expression machinery: a quantifier is the sequence of the       *)
(* positions it can stop at, in the order the backtracking matcher tries   *)
(* them; a match takes the first one the rest of the pattern accepts.      *)
(***************************************************************************)
\* length of the run of whitespace tokens starting at p
SpaceRun(t, p) ==
    CHOOSE k \in 0..(Len(t) + 1) :
        /\ \A j \in p..(p + k - 1) : IsSpace(Tok(t, j))
        /\ ~IsSpace(Tok(t, p + k))

\* length of the run of word tokens starting at p
WordRun(t, p) ==
    CHOOSE k \in 0..(Len(t) + 1) :
        /\ \A j \in p..(p + k - 1) : IsWord(Tok(t, j))
        /\ ~IsWord(Tok(t, p + k))

\* greedy X{min,} from p over a run of `run` tokens: longest first
GreedyEnds(p, run, min) == [i \in 1..(run - min + 1) |-> p + run - i + 1]

\* lazy .{min,} from p with `left` tokens left: shortest first
LazyEnds(p, left, min) == [i \in 1..(left - min + 1) |-> p + min + i - 1]

\* the least element of a set of numbers, 0 for the empty set
MinOf(S) == IF S = {} THEN 0 ELSE CHOOSE x \in S : \A y \in S : x <= y

\* the greatest element of a set of numbers, 0 for the empty set
MaxOf(S) == IF S = {} THEN 0 ELSE CHOOSE x \in S : \A y \in S : y <= x

\* the i-th candidate, 0 for i = 0
Candidate(cands, i) == IF i = 0 THEN 0 ELSE cands[i]

\* the first candidate that P accepts, 0 when none does
FirstOf(cands, P(_)) ==
    Candidate(cands, MinOf({i \in 1..Len(cands) : P(cands[i])}))

Spaces0(t, p) == GreedyEnds(p, SpaceRun(t, p), 0)
Spaces1(t, p) == GreedyEnds(p, SpaceRun(t, p), 1)
Words1(t, p) == GreedyEnds(p, WordRun(t, p), 1)
AnyLazy1(t, p) == LazyEnds(p, Len(t) - p + 1, 1)

NoMatch == [ok |-> FALSE, owner |-> <<>>, task |-> <<>>, start |-> 0, end |-> 0]

(***************************************************************************)
(* The checklist grammar, app.py line 151:                                 *)
(*   -\s*\[\s*\]\s+(\w+)\s+to\s+(.+?)(?=\n\s*-\s*\[|$)                      *)
(* under re.MULTILINE | re.DOTALL | re.IGNORECASE.                         *)
(***************************************************************************)
\* $ under re.MULTILINE: at the end of the text or right before a newline
Dollar(t, q) == q = Len(t) + 1 \/ Tok(t, q) = "NL"

\* (?=\n\s*-\s*\[|$)
MdLookahead(t, q) ==
    \/ /\ Tok(t, q) = "NL"
       /\ LET a == q + 1 + SpaceRun(t, q + 1)
          IN  /\ Tok(t, a) = "-"
              /\ Tok(t, a + 1 + SpaceRun(t, a + 1)) = "["
    \/ Dollar(t, q)

\* (.+?) starting at f, then the lookahead
MdG(t, f) == FirstOf(AnyLazy1(t, f), LAMBDA g : MdLookahead(t, g))

\* \s+ after "to", then the rest
MdF(t, e) == FirstOf(Spaces1(t, e), LAMBDA f : MdG(t, f) # 0)

\* \s+to after the owner, then the rest
MdE(t, d) ==
    FirstOf(Spaces1(t, d), LAMBDA e : Lower(Tok(t, e)) = "to" /\ MdF(t, e + 1) # 0)

\* (\w+), then the rest
MdD(t, c) == FirstOf(Words1(t, c), LAMBDA d : MdE(t, d) # 0)

\* \s+ after "]", then the rest
MdC(t, b) == FirstOf(Spaces1(t, b), LAMBDA c : MdD(t, c) # 0)

\* \s*\] after "[", then the rest
MdB(t, a) ==
    FirstOf(Spaces0(t, a), LAMBDA b : Tok(t, b) = "]" /\ MdC(t, b + 1) # 0)

\* \s*\[ after "-", then the rest
MdA(t, s) ==
    FirstOf(Spaces0(t, s), LAMBDA a : Tok(t, a) = "[" /\ MdB(t, a + 1) # 0)

\* the groups of the match from s whose owner is t[c..d-1] and whose
\* description starts at f and ends before g
MdGroups(t, s, c, d, f, g) ==
    [ok |-> TRUE, owner |-> Slice(t, c, d), task |-> Slice(t, f, g),
     start |-> s, end |-> g]

MdAtOwner(t, s, c, d) ==
    MdGroups(t, s, c, d, MdF(t, MdE(t, d) + 1), MdG(t, MdF(t, MdE(t, d) + 1)))

MdAtBracket(t, s, b) == MdAtOwner(t, s, MdC(t, b + 1), MdD(t, MdC(t, b + 1)))

\* the match of the checklist pattern that starts at s
MarkdownMatchAt(t, s) ==
    IF Tok(t, s) = "-" /\ MdA(t, s + 1) # 0
    THEN MdAtBracket(t, s, MdB(t, MdA(t, s + 1) + 1))
    ELSE NoMatch

(***************************************************************************)
(* The label grammar, app.py line 167:                                     *)
(*   Task:\s*(.+?)\s+Owner:\s*(\w+)    under re.DOTALL | re.IGNORECASE.     *)
(***************************************************************************)
\* \s*(\w+) after "Owner:"
LbE(t, c) == FirstOf(Spaces0(t, c), LAMBDA d : WordRun(t, d) >= 1)

\* \s+Owner: after the description, then the rest
LbC(t, b) ==
    FirstOf(Spaces1(t, b),
            LAMBDA c : /\ Lower(Tok(t, c)) = "owner"
                       /\ Tok(t, c + 1) = ":"
                       /\ LbE(t, c + 2) # 0)

\* (.+?) starting at a, then the rest
LbB(t, a) == FirstOf(AnyLazy1(t, a), LAMBDA b : LbC(t, b) # 0)

\* \s* after "Task:", then the rest
LbA(t, s) == FirstOf(Spaces0(t, s), LAMBDA a : LbB(t, a) # 0)

\* the groups of a match whose description is t[a..b-1] and whose owner
\* starts at d
LbGroups(t, s, a, b, d) ==
    [ok |-> TRUE, owner |-> Slice(t, d, d + WordRun(t, d)), task |-> Slice(t, a, b),
     start |-> s, end |-> d + WordRun(t, d)]

LbAtTask(t, s, a, b) == LbGroups(t, s, a, b, LbE(t, LbC(t, b) + 2))

\* the match of the label pattern that starts at s
LabelMatchAt(t, s) ==
    IF Lower(Tok(t, s)) = "task" /\ Tok(t, s + 1) = ":" /\ LbA(t, s + 2) # 0
    THEN LbAtTask(t, s, LbA(t, s + 2), LbB(t, LbA(t, s + 2)))
    ELSE NoMatch

(***************************************************************************)
(* str methods used on the captured groups.                                *)
(***************************************************************************)
\* str.strip()
NonSpace(t) == {i \in 1..Len(t) : ~IsSpace(t[i])}

Strip(t) ==
    IF NonSpace(t) = {} THEN <<>>
    ELSE Slice(t, MinOf(NonSpace(t)), MaxOf(NonSpace(t)) + 1)

\* str.replace('\n', ' ')
ReplaceNewlines(t) == [i \in 1..Len(t) |-> IF t[i] = "NL" THEN "SP" ELSE t[i]]

(***************************************************************************)
(* re.finditer: the leftmost match from `from`, then on from its end.      *)
(***************************************************************************)
RECURSIVE MarkdownFindAll(_, _)
\* the match at s and the matches after it; no match for s = 0
MarkdownFrom(t, s) ==
    IF s = 0 THEN <<>>
    ELSE <<MarkdownMatchAt(t, s)>> \o MarkdownFindAll(t, MarkdownMatchAt(t, s).end)

MarkdownFindAll(t, from) ==
    MarkdownFrom(t, MinOf({s \in from..Len(t) : MarkdownMatchAt(t, s).ok}))

RECURSIVE LabelFindAll(_, _)
LabelFrom(t, s) ==
    IF s = 0 THEN <<>>
    ELSE <<LabelMatchAt(t, s)>> \o LabelFindAll(t, LabelMatchAt(t, s).end)

LabelFindAll(t, from) ==
    LabelFrom(t, MinOf({s \in from..Len(t) : LabelMatchAt(t, s).ok}))

\* lines 157-163: one entry of the first loop
MarkdownEntry(m) ==
    [task |-> Strip(ReplaceNewlines(Strip(m.task))), owner |-> Strip(m.owner)]

\* lines 172-178: one entry of the second loop
LabelEntry(m) == [task |-> Strip(m.task), owner |-> Strip(m.owner)]

EntriesOfMarkdown(ms) == [i \in 1..Len(ms) |-> MarkdownEntry(ms[i])]

EntriesOfLabel(ms) == [i \in 1..Len(ms) |-> LabelEntry(ms[i])]

\* the entries of the first loop (lines 152-163)
MarkdownEntries(t) == EntriesOfMarkdown(MarkdownFindAll(t, 1))

\* the entries of the second loop (lines 167-178)
LabelEntries(t) == EntriesOfLabel(LabelFindAll(t, 1))

\* line 166: the second loop runs only if the first one found nothing
Fallback(md, t) == IF Len(md) = 0 THEN LabelEntries(t) ELSE md

\* both loops run and their entries are put together
ParseBothConcatenated(t) == MarkdownEntries(t) \o LabelEntries(t)

\* lines 148-183
ParseText(t) == Fallback(MarkdownEntries(t), t)

(***************************************************************************)
(* JSON values.  Every value is a record of the same shape:                *)
(*   k     "str" | "num" | "null" | "dict" | "list"                        *)
(*   text  the characters of a str, the digits of a num                    *)
(*   inner what json.loads gives for a str that holds JSON text, in a      *)
(*         one-element sequence; <<>> when json.loads raises               *)
(*   keys, vals  the items of a dict in order; vals alone the items of a   *)
(*         list                                                            *)
(***************************************************************************)
JStr(t) == [k |-> "str", text |-> t, inner |-> <<>>, keys |-> <<>>, vals |-> <<>>]
JJsonStr(v) == [k |-> "str", text |-> <<"JSON">>, inner |-> <<v>>, keys |-> <<>>, vals |-> <<>>]
JNum(d) == [k |-> "num", text |-> <<d>>, inner |-> <<>>, keys |-> <<>>, vals |-> <<>>]
JNull == [k |-> "null", text |-> <<>>, inner |-> <<>>, keys |-> <<>>, vals |-> <<>>]
JDict(ks, vs) == [k |-> "dict", text |-> <<>>, inner |-> <<>>, keys |-> ks, vals |-> vs]
JList(vs) == [k |-> "list", text |-> <<>>, inner |-> <<>>, keys |-> <<>>, vals |-> vs]

\* bool(v)
Truthy(v) ==
    CASE v.k = "str" -> v.text # <<>>
      [] v.k = "num" -> v.text # <<"0">>
      [] v.k = "null" -> FALSE
      [] v.k = "dict" -> v.keys # <<>>
      [] v.k = "list" -> v.vals # <<>>

\* key in d
HasKey(d, key) == \E i \in 1..Len(d.keys) : d.keys[i] = key

\* d.get(key)
Get(d, key) ==
    IF HasKey(d, key)
    THEN d.vals[CHOOSE i \in 1..Len(d.keys) : d.keys[i] = key]
    ELSE JNull

\* repr() of the characters of a str: a newline is written as backslash, n
EscapeNewlines(t) == [i \in 1..Len(t) |-> IF t[i] = "NL" THEN "BSN" ELSE t[i]]

RECURSIVE Repr(_)
RECURSIVE ReprItems(_, _)
\* repr(v)
Repr(v) ==
    CASE v.k = "str" -> <<"'">> \o EscapeNewlines(v.text) \o <<"'">>
      [] v.k = "num" -> v.text
      [] v.k = "null" -> <<"None">>
      [] v.k = "dict" -> <<"{">> \o ReprItems(v, 1) \o <<"}">>
      [] v.k = "list" -> <<"[">> \o ReprItems(v, 1) \o <<"]">>

\* the items of a dict or list from the i-th on, comma separated
ReprItems(v, i) ==
    IF i > Len(v.vals) THEN <<>>
    ELSE (IF i > 1 THEN <<",", "SP">> ELSE <<>>)
         \o (IF v.k = "dict" THEN <<"'", v.keys[i], "'", ":", "SP">> ELSE <<>>)
         \o Repr(v.vals[i])
         \o ReprItems(v, i + 1)

\* str(v)
Str(v) == IF v.k = "str" THEN v.text ELSE Repr(v)

RECURSIVE JoinStr(_, _)
\* '\n'.join(str(item) for item in vs), from the i-th item on
JoinStr(vs, i) ==
    IF i > Len(vs) THEN <<>>
    ELSE (IF i > 1 THEN <<"NL">> ELSE <<>>) \o Str(vs[i]) \o JoinStr(vs, i + 1)

(***************************************************************************)
(* parse_tasks_from_payload, lines 105-183.                                *)
(***************************************************************************)
\* lines 115-120: json.loads of a str payload, kept as it is when that raises
LoadIfJson(p) == IF p.k = "str" /\ p.inner # <<>> THEN p.inner[1] ELSE p

TextKeys == <<"krisp_blob", "text", "content", "body", "message", "data">>

\* lines 134-142: the first truthy value of the keys probed, else str(payload)
FirstTruthyKey(p) == MinOf({i \in 1..Len(TextKeys) : Truthy(Get(p, TextKeys[i]))})

ProbeKeys(p) ==
    IF FirstTruthyKey(p) = 0 THEN JStr(Str(p))
    ELSE Get(p, TextKeys[FirstTruthyKey(p)])

\* lines 122-146: text_content, a value that need not be a str
TextOf(p) ==
    IF p.k = "list" /\ Len(p.vals) > 0
    THEN IF p.vals[1].k = "dict" /\ HasKey(p.vals[1], "krisp_blob")
         THEN Get(p.vals[1], "krisp_blob")
         ELSE JStr(JoinStr(p.vals, 1))
    ELSE IF p.k = "dict" THEN ProbeKeys(p)
    ELSE JStr(Str(p))

TextContent(p) == TextOf(LoadIfJson(p))

\* the whole function: len() or re.finditer raise TypeError on a text_content
\* that is no str; otherwise the tasks of the grammars
\* lines 148-183 on a text_content
ParseTextContent(tc) ==
    IF tc.k # "str" THEN [fault |-> TRUE, tasks |-> <<>>]
    ELSE [fault |-> FALSE, tasks |-> ParseText(tc.text)]

parse_tasks_from_payload(p) == ParseTextContent(TextContent(p))

(***************************************************************************)
(* clean_task_text, lines 186-208.                                         *)
(***************************************************************************)
\* re.escape(owner) matched at the start of t under re.IGNORECASE: its end, or 0
OwnerEnd(t, owner) ==
    IF /\ Len(owner) <= Len(t)
       /\ Len(owner) > 0
       /\ LowerSeq(Slice(t, 1, Len(owner) + 1)) = LowerSeq(owner)
    THEN Len(owner) + 1
    ELSE 0

\* re.sub(rf'^{owner}\s+to\s+', '', t)
SubOwnerTo(t, owner) ==
    LET a == OwnerEnd(t, owner)
        b == a + SpaceRun(t, a)
        c == b + 1 + SpaceRun(t, b + 1)
    IN  IF /\ a # 0
           /\ SpaceRun(t, a) >= 1
           /\ Lower(Tok(t, b)) = "to"
           /\ SpaceRun(t, b + 1) >= 1
        THEN Slice(t, c, Len(t) + 1)
        ELSE t

\* re.sub(rf'^{owner}:\s*', '', t)
SubOwnerColon(t, owner) ==
    LET a == OwnerEnd(t, owner)
    IN  IF a # 0 /\ Tok(t, a) = ":"
        THEN Slice(t, a + 1 + SpaceRun(t, a + 1), Len(t) + 1)
        ELSE t

\* re.sub(rf'^{owner}\s+', '', t)
SubOwnerSpace(t, owner) ==
    LET a == OwnerEnd(t, owner)
    IN  IF a # 0 /\ SpaceRun(t, a) >= 1
        THEN Slice(t, a + SpaceRun(t, a), Len(t) + 1)
        ELSE t

\* lines 204-206
Capitalize(t) == IF t = <<>> THEN t ELSE <<UpperFirst(t[1])>> \o Tail(t)

clean_task_text(task_text, owner) ==
    Capitalize(Strip(SubOwnerSpace(SubOwnerColon(SubOwnerTo(task_text, owner),
                                                 owner), owner)))

(***************************************************************************)
(* The /webhook handler, lines 343-500, and the state it runs on.          *)
(***************************************************************************)
VARIABLES
    zapier_url,    \* os.environ ZAPIER_WEBHOOK_URL: "set" or "unset"
    payloads,      \* committed rows of table payloads, in insert order
    next_id,       \* the SERIAL sequence of payloads.id
    sent_tasks,    \* committed rows of table sent_tasks, in commit order
    pc,            \* where each invocation stands in the handler
    request,       \* the HTTP request the invocation was given
    payload,       \* the handler's local payload
    payload_id,    \* the handler's local payload_id, 0 before line 365
    meeting_name,  \* the handler's local meeting_name
    meeting_date,  \* the handler's local meeting_date
    tasks,         \* the handler's local tasks
    idx,           \* the loop index of line 436
    cur,           \* cleaned_task, success, response_text of the current task
    results,       \* the handler's local results
    txn,           \* the connection of line 434: its state and pending rows
    inflight,      \* the task positions whose HTTP POST has not returned
    response,      \* the responses the invocation has returned
    log,           \* history: the post_to_zapier calls and INSERTs made
    text_input,    \* parser harness: the text given to the grammars
    parsed,        \* parser harness: <<the tasks parsed>>, <<>> before
    task_input,    \* cleaner harness: the task text and owner given to it
    cleaned_out,   \* cleaner harness: <<the cleaned text>>, <<>> before
    payload_input, \* extractor harness: the payload given to the parser
    extracted      \* extractor harness: <<text_content>>, <<>> before

vars ==
    <<zapier_url, payloads, next_id, sent_tasks, pc, request, payload, payload_id,
      meeting_name, meeting_date, tasks, idx, cur, results, txn, inflight,
      response, log, text_input, parsed, task_input, cleaned_out, payload_input,
      extracted>>

dbVars == <<payloads, next_id, sent_tasks>>
parserVars == <<text_input, parsed>>
cleanerVars == <<task_input, cleaned_out>>
extractorVars == <<payload_input, extracted>>
harnessVars == <<parserVars, cleanerVars, extractorVars>>

Reqs == 1..NumReqs

(***************************************************************************)
(* The requests sent to /webhook.                                          *)
(***************************************************************************)
TwoChecklistTasks ==
    <<"-", "SP", "[", "SP", "]", "SP", "Bob", "SP", "to", "SP", "send", "NL",
      "-", "SP", "[", "SP", "]", "SP", "Carol", "SP", "to", "SP", "call">>

OneLabelTask == <<"Task", ":", "SP", "call", "SP", "Owner", ":", "SP", "Bob">>

Requests ==
    << \* a body that is no JSON: request.get_json raises
       [kind |-> "badjson", body |-> JNull],
       \* {}
       [kind |-> "json", body |-> JDict(<<>>, <<>>)],
       \* {"krisp_blob": "- [ ] Bob to send\n- [ ] Carol to call", "meeting_name": "notes"}
       [kind |-> "json",
        body |-> JDict(<<"krisp_blob", "meeting_name">>,
                       <<JStr(TwoChecklistTasks), JStr(<<"notes">>)>>)],
       \* [{"krisp_blob": "Task: call Owner: Bob"}]
       [kind |-> "json",
        body |-> JList(<<JDict(<<"krisp_blob">>, <<JStr(OneLabelTask)>>)>>)],
       \* {"krisp_blob": 5}
       [kind |-> "json", body |-> JDict(<<"krisp_blob">>, <<JNum("5")>>)],
       \* "call Bob"
       [kind |-> "json", body |-> JStr(<<"call", "SP", "Bob">>)],
       \* 5
       [kind |-> "json", body |-> JNum("5")],
       \* a form post notes=call
       [kind |-> "form", body |-> JDict(<<"notes">>, <<JStr(<<"call">>)>>)] >>

NoRequest == [kind |-> "none", body |-> JNull]
NoTask == [cleaned_task |-> <<>>, success |-> FALSE, response_text |-> ""]
NoTxn == [state |-> "none", rows |-> <<>>]

WebhookInit ==
    /\ zapier_url \in {"set", "unset"}
    /\ payloads = <<>>
    /\ next_id = 1
    /\ sent_tasks = <<>>
    /\ pc = [r \in Reqs |-> "idle"]
    /\ request = [r \in Reqs |-> NoRequest]
    /\ payload = [r \in Reqs |-> JNull]
    /\ payload_id = [r \in Reqs |-> 0]
    /\ meeting_name = [r \in Reqs |-> JNull]
    /\ meeting_date = [r \in Reqs |-> JNull]
    /\ tasks = [r \in Reqs |-> <<>>]
    /\ idx = [r \in Reqs |-> 0]
    /\ cur = [r \in Reqs |-> NoTask]
    /\ results = [r \in Reqs |-> <<>>]
    /\ txn = [r \in Reqs |-> NoTxn]
    /\ inflight = [r \in Reqs |-> {}]
    /\ response = [r \in Reqs |-> <<>>]
    /\ log = [r \in Reqs |-> <<>>]

\* the harnesses at rest
ParserIdle == text_input = <<>> /\ parsed = <<>>
CleanerIdle == task_input = [task |-> <<>>, owner |-> <<>>] /\ cleaned_out = <<>>
ExtractorIdle == payload_input = JNull /\ extracted = <<>>

Init ==
    /\ WebhookInit
    /\ ParserIdle
    /\ CleanerIdle
    /\ ExtractorIdle

\* the three bodies the handler returns
Rejected ==
    [status |-> 400, kind |-> "rejected", tasks_processed |-> 0,
     tasks_successful |-> 0, results |-> <<>>]

Failure ==
    [status |-> 500, kind |-> "failure", tasks_processed |-> 0,
     tasks_successful |-> 0, results |-> <<>>]

Summary(n, k, res) ==
    [status |-> 200, kind |-> "summary", tasks_processed |-> n,
     tasks_successful |-> k, results |-> res]

\* return jsonify(...): the invocation ends with this response
Respond(r, body) ==
    /\ response' = [response EXCEPT ![r] = Append(@, body)]
    /\ pc' = [pc EXCEPT ![r] = "done"]

\* lines 346-351: read the payload, reject an empty one; a fault of get_json
\* goes to the handler of line 498
Receive(r) ==
    /\ pc[r] = "idle"
    /\ \E q \in 1..Len(Requests) :
          /\ request' = [request EXCEPT ![r] = Requests[q]]
          /\ IF Requests[q].kind = "badjson"
             THEN /\ Respond(r, Failure)
                  /\ UNCHANGED payload
             ELSE /\ payload' = [payload EXCEPT ![r] = Requests[q].body]
                  /\ IF ~Truthy(Requests[q].body)
                     THEN Respond(r, Rejected)
                     ELSE /\ pc' = [pc EXCEPT ![r] = "store"]
                          /\ UNCHANGED response
    /\ UNCHANGED <<zapier_url, dbVars, payload_id, meeting_name, meeting_date,
                   tasks, idx, cur, results, txn, inflight, log, harnessVars>>

\* the store of the payload with its fault swallowed: the pipeline goes on
\* without a payload row
StorePayloadFaultSwallowed(r) ==
    /\ pc[r] = "store"
    /\ \E ok \in BOOLEAN :
          IF ok
          THEN /\ payloads' = Append(payloads,
                                     [id |-> next_id, payload_data |-> payload[r],
                                      by |-> r])
               /\ next_id' = next_id + 1
               /\ payload_id' = [payload_id EXCEPT ![r] = next_id]
          ELSE UNCHANGED <<payloads, next_id, payload_id>>
    /\ pc' = [pc EXCEPT ![r] = "extract"]
    /\ UNCHANGED <<zapier_url, sent_tasks, request, payload, meeting_name, meeting_date,
                   tasks, idx, cur, results, txn, inflight, response, log,
                   harnessVars>>

\* lines 354-365: connect, INSERT INTO payloads, commit; payload_id is the id
\* the INSERT returned.  Any fault goes to the handler of line 498.
StorePayload(r) ==
    /\ pc[r] = "store"
    /\ \E ok \in BOOLEAN :
          IF ok
          THEN /\ payloads' = Append(payloads,
                                     [id |-> next_id, payload_data |-> payload[r],
                                      by |-> r])
               /\ next_id' = next_id + 1
               /\ payload_id' = [payload_id EXCEPT ![r] = next_id]
               /\ pc' = [pc EXCEPT ![r] = "extract"]
               /\ UNCHANGED response
          ELSE /\ Respond(r, Failure)
               /\ UNCHANGED <<payloads, next_id, payload_id>>
    /\ UNCHANGED <<zapier_url, sent_tasks, request, payload, meeting_name, meeting_date,
                   tasks, idx, cur, results, txn, inflight, log, harnessVars>>

(***************************************************************************)
(* Lines 372-405: meeting_name and meeting_date, each the first value that *)
(* is not None among the payload's own key and the keys of its nested      *)
(* dicts (for a list: of every dict item in turn).                         *)
(***************************************************************************)
RECURSIVE NestedValues(_, _, _)
\* value.get(key) of the values of d, from the i-th on, that are dicts holding key
NestedValues(d, key, i) ==
    IF i > Len(d.vals) THEN <<>>
    ELSE (IF d.vals[i].k = "dict" /\ HasKey(d.vals[i], key)
          THEN <<Get(d.vals[i], key)>>
          ELSE <<>>)
         \o NestedValues(d, key, i + 1)

RECURSIVE ItemValues(_, _, _)
\* the same over the dict items of a list, from the i-th on
ItemValues(l, key, i) ==
    IF i > Len(l.vals) THEN <<>>
    ELSE (IF l.vals[i].k = "dict"
          THEN <<Get(l.vals[i], key)>> \o NestedValues(l.vals[i], key, 1)
          ELSE <<>>)
         \o ItemValues(l, key, i + 1)

FirstNotNone(vs) ==
    IF \A i \in 1..Len(vs) : vs[i].k = "null" THEN JNull
    ELSE vs[MinOf({i \in 1..Len(vs) : vs[i].k # "null"})]

MeetingField(p, key) ==
    CASE p.k = "list" -> FirstNotNone(ItemValues(p, key, 1))
      [] p.k = "dict" -> FirstNotNone(<<Get(p, key)>> \o NestedValues(p, key, 1))
      [] OTHER -> JNull


\* line 417: parse_tasks_from_payload(payload), tabulated over the payloads
\* that can arrive
ParseTable ==
    [b \in {Requests[q].body : q \in 1..Len(Requests)} |->
        parse_tasks_from_payload(b)]

\* every task entry that some payload parses into
ParsedTasks ==
    UNION {{ParseTable[b].tasks[i] : i \in 1..Len(ParseTable[b].tasks)} :
              b \in DOMAIN ParseTable}

\* line 438: clean_task_text(task_data['task'], task_data['owner']), tabulated
\* over the task entries
CleanTable == [t \in ParsedTasks |-> clean_task_text(t.task, t.owner)]

\* lines 367-429: the meeting fields, then the parse.  A fault of the parse
\* goes to the handler of line 498; no task ends the invocation with the
\* "no tasks found" summary.
ParsedUncaught(r, p) ==
    IF p.fault
    THEN /\ pc' = [pc EXCEPT ![r] = "done"]
         /\ UNCHANGED <<tasks, response>>
    ELSE IF p.tasks = <<>>
    THEN /\ Respond(r, Summary(0, 0, <<>>))
         /\ UNCHANGED tasks
    ELSE /\ tasks' = [tasks EXCEPT ![r] = p.tasks]
         /\ pc' = [pc EXCEPT ![r] = "connect"]
         /\ UNCHANGED response

ExtractUncaught(r) ==
    /\ pc[r] = "extract"
    /\ meeting_name' = [meeting_name EXCEPT ![r] = MeetingField(payload[r], "meeting_name")]
    /\ meeting_date' = [meeting_date EXCEPT ![r] = MeetingField(payload[r], "meeting_date")]
    /\ ParsedUncaught(r, ParseTable[payload[r]])
    /\ UNCHANGED <<zapier_url, dbVars, request, payload, payload_id, idx, cur, results,
                   txn, inflight, log, harnessVars>>

Parsed(r, p) ==
    IF p.fault
    THEN /\ Respond(r, Failure)
         /\ UNCHANGED tasks
    ELSE IF p.tasks = <<>>
    THEN /\ Respond(r, Summary(0, 0, <<>>))
         /\ UNCHANGED tasks
    ELSE /\ tasks' = [tasks EXCEPT ![r] = p.tasks]
         /\ pc' = [pc EXCEPT ![r] = "connect"]
         /\ UNCHANGED response

Extract(r) ==
    /\ pc[r] = "extract"
    /\ meeting_name' = [meeting_name EXCEPT ![r] = MeetingField(payload[r], "meeting_name")]
    /\ meeting_date' = [meeting_date EXCEPT ![r] = MeetingField(payload[r], "meeting_date")]
    /\ Parsed(r, ParseTable[payload[r]])
    /\ UNCHANGED <<zapier_url, dbVars, request, payload, payload_id, idx, cur, results,
                   txn, inflight, log, harnessVars>>

\* lines 432-435: results = [], then the second connection and its cursor.
\* A fault here is caught at line 481: the loop is skipped.
Connect(r) ==
    /\ pc[r] = "connect"
    /\ results' = [results EXCEPT ![r] = <<>>]
    /\ \E ok \in BOOLEAN :
          IF ok
          THEN /\ txn' = [txn EXCEPT ![r] = [state |-> "open", rows |-> <<>>]]
               /\ idx' = [idx EXCEPT ![r] = 1]
               /\ pc' = [pc EXCEPT ![r] = "loop"]
          ELSE /\ pc' = [pc EXCEPT ![r] = "summary"]
               /\ UNCHANGED <<txn, idx>>
    /\ UNCHANGED <<zapier_url, dbVars, request, payload, payload_id, meeting_name,
                   meeting_date, tasks, cur, inflight, response, log,
                   harnessVars>>

\* lines 441-450: the JSON body posted for the current task
ZapierData(r, cleaned) ==
    [task |-> cleaned,
     owner |-> tasks[r][idx[r]].owner,
     meeting_name |-> IF Truthy(meeting_name[r]) THEN meeting_name[r] ELSE JNull,
     meeting_date |-> IF Truthy(meeting_date[r]) THEN meeting_date[r] ELSE JNull]

NoUrlText == "ZAPIER_WEBHOOK_URL not found in environment variables"

\* the ways the POST of lines 222-227 can end: a final response of status
\* 2xx, 3xx (a redirect status that requests does not follow, such as 304) or
\* 4xx/5xx, or a RequestException (a connection error, or the timeout of 10 s)
PostOutcomes == {"2xx", "3xx", "4xx5xx", "exception"}

\* lines 228-231: what post_to_zapier returns.  raise_for_status raises
\* HTTPError, a RequestException, for a status of 400 to 599 and for no other
PostResult(out) ==
    IF out \in {"4xx5xx", "exception"}
    THEN [success |-> FALSE, response_text |-> "str(e)"]
    ELSE [success |-> TRUE, response_text |-> "response.text"]

\* the POST handed to a background sender and not waited for
PostCleanedNotAwaited(r, cleaned) ==
    /\ cur' = [cur EXCEPT ![r] = [cleaned_task |-> cleaned,
                                  success |-> zapier_url = "set",
                                  response_text |-> IF zapier_url = "set" THEN "queued"
                                                    ELSE NoUrlText]]
    /\ inflight' = [inflight EXCEPT ![r] =
                        IF zapier_url = "set" THEN @ \cup {idx[r]} ELSE @]
    /\ pc' = [pc EXCEPT ![r] = "insert"]
    /\ UNCHANGED log

\* lines 436-453 and 216-227: clean the task, build the body and call
\* post_to_zapier, which returns at once without a URL and else sends the POST
PostCleaned(r, cleaned) ==
    IF zapier_url = "unset"
    THEN /\ cur' = [cur EXCEPT ![r] = [cleaned_task |-> cleaned,
                                       success |-> FALSE,
                                       response_text |-> NoUrlText]]
         /\ log' = [log EXCEPT ![r] =
                       Append(@, [op |-> "post", i |-> idx[r],
                                  data |-> ZapierData(r, cleaned),
                                  out |-> "no_url"])]
         /\ pc' = [pc EXCEPT ![r] = "insert"]
         /\ UNCHANGED inflight
    ELSE /\ cur' = [cur EXCEPT ![r] = [cleaned_task |-> cleaned,
                                       success |-> FALSE,
                                       response_text |-> ""]]
         /\ inflight' = [inflight EXCEPT ![r] = @ \cup {idx[r]}]
         /\ pc' = [pc EXCEPT ![r] = "posting"]
         /\ UNCHANGED log

PostStart(r) ==
    /\ pc[r] = "loop"
    /\ PostCleaned(r, CleanTable[tasks[r][idx[r]]])
    /\ UNCHANGED <<zapier_url, dbVars, request, payload, payload_id, meeting_name,
                   meeting_date, tasks, idx, results, txn, response,
                   harnessVars>>

\* lines 222-231: the POST returns a response, or raises within the timeout
PostEnd(r) ==
    /\ pc[r] = "posting"
    /\ \E out \in PostOutcomes :
          /\ cur' = [cur EXCEPT ![r] = [cleaned_task |-> @.cleaned_task,
                                        success |-> PostResult(out).success,
                                        response_text |-> PostResult(out).response_text]]
          /\ log' = [log EXCEPT ![r] =
                        Append(@, [op |-> "post", i |-> idx[r],
                                   data |-> ZapierData(r, cur[r].cleaned_task),
                                   out |-> out])]
    /\ inflight' = [inflight EXCEPT ![r] = @ \ {idx[r]}]
    /\ pc' = [pc EXCEPT ![r] = "insert"]
    /\ UNCHANGED <<zapier_url, dbVars, request, payload, payload_id, meeting_name,
                   meeting_date, tasks, idx, results, txn, response,
                   harnessVars>>

\* the row of the INSERT of lines 457-460; by and i are history fields (the
\* invocation and the task position the row was written for)
SentTaskRowLatestPayload(r) ==
    [payload_id |-> next_id - 1,
     task |-> cur[r].cleaned_task,
     owner |-> tasks[r][idx[r]].owner,
     zapier_response |-> cur[r].response_text,
     success |-> cur[r].success,
     meeting_name |-> meeting_name[r],
     meeting_date |-> meeting_date[r],
     by |-> r,
     i |-> idx[r]]

SentTaskRow(r) ==
    [payload_id |-> payload_id[r],
     task |-> cur[r].cleaned_task,
     owner |-> tasks[r][idx[r]].owner,
     zapier_response |-> cur[r].response_text,
     success |-> cur[r].success,
     meeting_name |-> meeting_name[r],
     meeting_date |-> meeting_date[r],
     by |-> r,
     i |-> idx[r]]

\* the entry of lines 467-472
ResultEntry(r) ==
    [task |-> cur[r].cleaned_task,
     owner |-> tasks[r][idx[r]].owner,
     success |-> cur[r].success,
     response |-> cur[r].response_text]

\* the INSERT on a connection in autocommit mode: a row is durable at once
InsertTaskAutocommit(r) ==
    /\ pc[r] = "insert"
    /\ \E ok \in (IF txn[r].state = "open" THEN BOOLEAN ELSE {FALSE}) :
          /\ sent_tasks' = IF ok THEN Append(sent_tasks, SentTaskRow(r)) ELSE sent_tasks
          /\ txn' = [txn EXCEPT ![r] =
                        IF ok THEN @ ELSE [state |-> "aborted", rows |-> @.rows]]
          /\ log' = [log EXCEPT ![r] =
                        Append(@, [op |-> "insert", i |-> idx[r],
                                   data |-> SentTaskRow(r),
                                   out |-> IF ok THEN "ok"
                                           ELSE IF txn[r].state = "open" THEN "error"
                                           ELSE "aborted"])]
    /\ results' = [results EXCEPT ![r] = Append(@, ResultEntry(r))]
    /\ idx' = [idx EXCEPT ![r] = @ + 1]
    /\ pc' = [pc EXCEPT ![r] = IF idx[r] < Len(tasks[r]) THEN "loop" ELSE "commit"]
    /\ UNCHANGED <<zapier_url, payloads, next_id, request, payload, payload_id,
                   meeting_name, meeting_date, tasks, cur, inflight, response,
                   harnessVars>>

\* lines 455-478: the INSERT on the shared cursor, its fault swallowed at line
\* 462, then results.append and the next turn of the loop.  A statement that
\* fails leaves the PostgreSQL transaction aborted: every later statement of
\* the transaction fails as well.
InsertTask(r) ==
    /\ pc[r] = "insert"
    /\ \E ok \in (IF txn[r].state = "open" THEN BOOLEAN ELSE {FALSE}) :
          /\ txn' = [txn EXCEPT ![r] =
                        IF ok
                        THEN [state |-> "open", rows |-> Append(@.rows, SentTaskRow(r))]
                        ELSE [state |-> "aborted", rows |-> @.rows]]
          /\ log' = [log EXCEPT ![r] =
                        Append(@, [op |-> "insert", i |-> idx[r],
                                   data |-> SentTaskRow(r),
                                   out |-> IF ok THEN "ok"
                                           ELSE IF txn[r].state = "open" THEN "error"
                                           ELSE "aborted"])]
    /\ results' = [results EXCEPT ![r] = Append(@, ResultEntry(r))]
    /\ idx' = [idx EXCEPT ![r] = @ + 1]
    /\ pc' = [pc EXCEPT ![r] = IF idx[r] < Len(tasks[r]) THEN "loop" ELSE "commit"]
    /\ UNCHANGED <<zapier_url, dbVars, request, payload, payload_id, meeting_name,
                   meeting_date, tasks, cur, inflight, response, harnessVars>>

\* lines 479-485: conn.commit() after the loop.  The rows become durable when
\* the transaction is open and the commit goes through; PostgreSQL answers the
\* COMMIT of an aborted transaction with a rollback, and a commit that raises
\* is caught at line 481.
Commit(r) ==
    /\ pc[r] = "commit"
    /\ \E ok \in BOOLEAN :
          IF ok /\ txn[r].state = "open"
          THEN /\ sent_tasks' = sent_tasks \o txn[r].rows
               /\ txn' = [txn EXCEPT ![r] = [state |-> "committed", rows |-> <<>>]]
          ELSE /\ txn' = [txn EXCEPT ![r] =
                             [state |-> IF ok THEN "rolledback" ELSE "failed",
                              rows |-> <<>>]]
               /\ UNCHANGED sent_tasks
    /\ pc' = [pc EXCEPT ![r] = "summary"]
    /\ UNCHANGED <<zapier_url, payloads, next_id, request, payload, payload_id,
                   meeting_name, meeting_date, tasks, idx, cur, results,
                   inflight, response, log, harnessVars>>

\* sum(1 for r in results if r['success'])
SuccessfulCount(res) == Cardinality({i \in 1..Len(res) : res[i].success})

\* lines 486-496: the aggregate summary
Summarize(r) ==
    /\ pc[r] = "summary"
    /\ Respond(r, Summary(Len(tasks[r]), SuccessfulCount(results[r]), results[r]))
    /\ UNCHANGED <<zapier_url, dbVars, request, payload, payload_id, meeting_name,
                   meeting_date, tasks, idx, cur, results, txn, inflight, log,
                   harnessVars>>

\* lines 588-621: GET /payload/<id>/tasks on a connection of its own reads the
\* committed sent_tasks rows of the payload (rows of one transaction carry the
\* same sent_at, so their order is not told)
get_payload_tasks(id) ==
    [payload_id |-> id,
     count |-> Cardinality({p \in 1..Len(sent_tasks) : sent_tasks[p].payload_id = id}),
     tasks |-> {sent_tasks[p] : p \in {q \in 1..Len(sent_tasks) :
                                          sent_tasks[q].payload_id = id}}]

\* one step of invocation r after the request has arrived
Handle(r) ==
    \/ StorePayload(r)
    \/ Extract(r)
    \/ Connect(r)
    \/ PostStart(r)
    \/ PostEnd(r)
    \/ InsertTask(r)
    \/ Commit(r)
    \/ Summarize(r)

Next == \E r \in Reqs : Receive(r) \/ Handle(r)

Spec == Init /\ [][Next]_vars

\* every call of the handler returns or raises (the POST within its timeout),
\* so an invocation that has started keeps taking steps
FairSpec == Spec /\ \A r \in Reqs : WF_vars(Handle(r))

(***************************************************************************)
(* The parser on its own: every text built of at most MaxFrags fragments   *)
(* is given to the grammars of parse_tasks_from_payload.                   *)
(***************************************************************************)
Fragments ==
    << \* "- [ ] Bob to send"
       <<"-", "SP", "[", "SP", "]", "SP", "Bob", "SP", "to", "SP", "send">>,
       \* "\n-[] Carol TO call"
       <<"NL", "-", "[", "]", "SP", "Carol", "SP", "TO", "SP", "call">>,
       \* "- [ ] "
       <<"-", "SP", "[", "SP", "]", "SP">>,
       \* "Task: call Owner: Carol"
       <<"Task", ":", "SP", "call", "SP", "Owner", ":", "SP", "Carol">>,
       \* "task:send owner:bob"
       <<"task", ":", "send", "SP", "owner", ":", "bob">>,
       <<"NL">>,
       <<"SP">>,
       <<"call">> >>

RECURSIVE TextsOf(_)
\* the texts built of at most n fragments
TextsOf(n) ==
    IF n = 0 THEN {<<>>}
    ELSE TextsOf(n - 1)
         \cup {t \o Fragments[f] : t \in TextsOf(n - 1), f \in 1..Len(Fragments)}

\* the parser reads no environment: the URL is left unset
ParseInit ==
    /\ WebhookInit
    /\ zapier_url = "unset"
    /\ text_input \in TextsOf(MaxFrags)
    /\ parsed = <<>>
    /\ CleanerIdle
    /\ ExtractorIdle

\* tasks = parse_tasks_from_payload(text), the text being no JSON
ParseApply ==
    /\ parsed = <<>>
    /\ parsed' = <<ParseText(text_input)>>
    /\ UNCHANGED <<zapier_url, dbVars, pc, request, payload, payload_id, meeting_name,
                   meeting_date, tasks, idx, cur, results, txn, inflight,
                   response, log, text_input, cleanerVars, extractorVars>>

ParseNext == ParseApply

ParseSpec == ParseInit /\ [][ParseNext]_vars

(***************************************************************************)
(* The cleaner on its own: clean_task_text is given a stripped task text   *)
(* that starts with at most MaxPrefixes owner prefixes, and an owner.      *)
(***************************************************************************)
OwnerPrefixes ==
    << <<"Bob", "SP", "to", "SP">>,
       <<"bob", ":", "SP">>,
       <<"BOB", "SP">>,
       <<"Bob", ":">>,
       <<"to", "SP">>,
       <<"Carol", "SP", "TO", "SP", "SP">> >>

TaskBodies == {<<>>, <<"call">>, <<"send", "SP", "Bob">>}

Owners == {<<"Bob">>, <<"Carol">>}

RECURSIVE PrefixTexts(_)
\* the texts built of at most n owner prefixes
PrefixTexts(n) ==
    IF n = 0 THEN {<<>>}
    ELSE PrefixTexts(n - 1)
         \cup {t \o OwnerPrefixes[f] : t \in PrefixTexts(n - 1),
                                        f \in 1..Len(OwnerPrefixes)}

\* the parser hands over task texts it has stripped, and owners of one word
CleanInputs ==
    {[task |-> Strip(t \o b), owner |-> o] :
        t \in PrefixTexts(MaxPrefixes), b \in TaskBodies, o \in Owners}

\* the cleaner reads no environment: the URL is left unset
CleanInit ==
    /\ WebhookInit
    /\ zapier_url = "unset"
    /\ ParserIdle
    /\ task_input \in CleanInputs
    /\ cleaned_out = <<>>
    /\ ExtractorIdle

\* cleaned_task = clean_task_text(task_data['task'], task_data['owner'])
CleanApply ==
    /\ cleaned_out = <<>>
    /\ cleaned_out' = <<clean_task_text(task_input.task, task_input.owner)>>
    /\ UNCHANGED <<zapier_url, dbVars, pc, request, payload, payload_id, meeting_name,
                   meeting_date, tasks, idx, cur, results, txn, inflight,
                   response, log, parserVars, task_input, extractorVars>>

CleanNext == CleanApply

CleanSpec == CleanInit /\ [][CleanNext]_vars

(***************************************************************************)
(* The text extraction on its own: lines 114-146 are given a payload that  *)
(* passed the test of line 350, a dict or list of at most MaxItems items   *)
(* or a str.                                                               *)
(***************************************************************************)
\* the values an item of a payload can have
FieldValues ==
    {JStr(<<>>), JStr(<<"call", "SP", "Bob">>), JStr(OneLabelTask), JNum("5"),
     JNum("0"), JNull, JDict(<<>>, <<>>), JList(<<>>),
     JDict(<<"notes">>, <<JStr(<<"call">>)>>), JList(<<JStr(<<"call">>)>>)}

\* the key orders of the dicts generated
KeyOrders ==
    {TextKeys,
     <<"notes", "data", "message", "body", "content", "text">>,
     <<"text", "krisp_blob", "notes", "data", "content", "body">>}

\* the sequences of 1 to n item values
ValueSeqs(n) == UNION {[1..m -> FieldValues] : m \in 1..n}

DictPayloads == {JDict(SubSeq(ks, 1, Len(vs)), vs) : ks \in KeyOrders, vs \in ValueSeqs(MaxItems)}

ListPayloads ==
    {JList(vs) : vs \in ValueSeqs(MaxItems)}
    \cup {JList(<<JDict(<<"krisp_blob">>, <<v>>)>> \o vs) :
              v \in FieldValues, vs \in {<<>>} \cup ValueSeqs(MaxItems - 1)}

\* a str that is no JSON text, and the strs that are the JSON text of a value
StrPayloads == {JStr(<<"call", "SP", "Bob">>)} \cup {JJsonStr(v) : v \in FieldValues}

\* line 350 lets only a payload that is truthy through
PayloadInputs == {p \in DictPayloads \cup ListPayloads \cup StrPayloads : Truthy(p)}

\* the extraction reads no environment: the URL is left unset
ExtractInit ==
    /\ WebhookInit
    /\ zapier_url = "unset"
    /\ ParserIdle
    /\ CleanerIdle
    /\ payload_input \in PayloadInputs
    /\ extracted = <<>>

\* lines 114-146: text_content as it stands before line 151
ExtractApply ==
    /\ extracted = <<>>
    /\ extracted' = <<TextContent(payload_input)>>
    /\ UNCHANGED <<zapier_url, dbVars, pc, request, payload, payload_id, meeting_name,
                   meeting_date, tasks, idx, cur, results, txn, inflight,
                   response, log, parserVars, cleanerVars, payload_input>>

ExtractNext == ExtractApply

ExtractSpec == ExtractInit /\ [][ExtractNext]_vars

(***************************************************************************)
(* Vocabulary of the properties.                                           *)
(***************************************************************************)
\* the post_to_zapier calls made for task i of invocation r
Posts(r, i) == {p \in 1..Len(log[r]) : log[r][p].op = "post" /\ log[r][p].i = i}

\* the INSERTs attempted for task i of invocation r
Inserts(r, i) == {p \in 1..Len(log[r]) : log[r][p].op = "insert" /\ log[r][p].i = i}

\* the committed sent_tasks rows of r's payload that stand for task i
RowsFor(r, i) ==
    {p \in 1..Len(sent_tasks) :
        sent_tasks[p].payload_id = payload_id[r] /\ sent_tasks[p].i = i}

\* the committed sent_tasks rows of r's payload
RowsOfPayload(r) ==
    {p \in 1..Len(sent_tasks) : sent_tasks[p].payload_id = payload_id[r]}

\* the committed payloads rows written by r
PayloadRowsBy(r) == {p \in 1..Len(payloads) : payloads[p].by = r}

\* r has returned
Finished(r) == pc[r] = "done"

\* r has returned the aggregate summary of a payload that parsed into tasks
Summarized(r) ==
    /\ Finished(r)
    /\ tasks[r] # <<>>
    /\ Len(response[r]) = 1
    /\ response[r][1].kind = "summary"

\* the delivery of task i of r was attempted and did not get a 2xx response
DeliveryFailed(r, i) == \E p \in Posts(r, i) : log[r][p].out # "2xx"

\* the delivery of task i of r got a 2xx response
Delivered2xx(r, i) == \E p \in Posts(r, i) : log[r][p].out = "2xx"

\* the INSERT of task i of r failed on its own account
InsertFailed(r, i) == \E p \in Inserts(r, i) : log[r][p].out = "error"

\* the INSERT of task i of r went through
InsertOk(r, i) == \E p \in Inserts(r, i) : log[r][p].out = "ok"

(***************************************************************************)
(* C1.  In every invocation whose payload was stored and parsed into       *)
(* tasks t1..tN, exactly one delivery attempt is made for each ti, never   *)
(* zero and never more than one, whatever the database does.               *)
(***************************************************************************)
C1_ExactlyOneDelivery ==
    \A r \in Reqs :
        /\ \A i \in 1..Len(tasks[r]) : Cardinality(Posts(r, i)) <= 1
        /\ Finished(r) /\ tasks[r] # <<>> =>
              \A i \in 1..Len(tasks[r]) : Cardinality(Posts(r, i)) = 1

(***************************************************************************)
(* C2.  Once an invocation that parsed t1..tN has finished, the store      *)
(* holds exactly one SentTaskRecord per ti for its payload: not zero, not  *)
(* two.                                                                    *)
(***************************************************************************)
C2_ExactlyOneRecord ==
    \A r \in Reqs :
        Finished(r) /\ tasks[r] # <<>> =>
            \A i \in 1..Len(tasks[r]) : Cardinality(RowsFor(r, i)) = 1

(***************************************************************************)
(* C3.  Per-task failures are isolated: when the delivery or the INSERT of *)
(* some task ti fails, every later task is still forwarded and its INSERT  *)
(* attempted, and every sibling task whose own INSERT did not fail has its *)
(* record in the store (unless the commit itself raised).                  *)
(***************************************************************************)
C3_FailuresIsolated ==
    \A r \in Reqs :
        Summarized(r) =>
            \A i \in 1..Len(tasks[r]) :
                (DeliveryFailed(r, i) \/ InsertFailed(r, i)) =>
                    \A j \in (1..Len(tasks[r])) \ {i} :
                        /\ j > i => Posts(r, j) # {} /\ Inserts(r, j) # {}
                        /\ (~InsertFailed(r, j) /\ txn[r].state # "failed")
                               => RowsFor(r, j) # {}

(***************************************************************************)
(* C4.  A delivery failure of any kind (network error, timeout, non-2xx    *)
(* response, no URL configured) is reported for its task as success=false  *)
(* with a detail string, in the per-task result and in the SentTaskRecord  *)
(* written for it, and is never raised as a request-level error: the       *)
(* invocation still ends with the summary response.                        *)
(***************************************************************************)
C4_DeliveryFailureReported ==
    \A r \in Reqs :
        \A i \in 1..Len(tasks[r]) :
            DeliveryFailed(r, i) =>
                /\ Len(results[r]) >= i =>
                      /\ results[r][i].success = FALSE
                      /\ results[r][i].response # ""
                /\ \A p \in 1..Len(txn[r].rows) :
                      txn[r].rows[p].i = i =>
                          /\ txn[r].rows[p].success = FALSE
                          /\ txn[r].rows[p].zapier_response # ""
                /\ \A p \in RowsFor(r, i) :
                      /\ sent_tasks[p].success = FALSE
                      /\ sent_tasks[p].zapier_response = results[r][i].response
                      /\ sent_tasks[p].zapier_response # ""
                /\ Finished(r) =>
                      /\ Len(response[r]) = 1
                      /\ response[r][1].kind = "summary"
                      /\ response[r][1].status = 200
                      /\ response[r][1].results[i].success = FALSE
                      /\ response[r][1].results[i].response # ""

(***************************************************************************)
(* C5.  Whenever an invocation returns the summary for a payload that      *)
(* parsed into N >= 1 tasks of which k deliveries got a 2xx response, the  *)
(* summary has tasks_processed = N, tasks_successful = k and N results in  *)
(* extraction order, and the store holds N records for the payload of      *)
(* which N - k have success=false.                                         *)
(***************************************************************************)
C5_SummaryMatchesStore ==
    \A r \in Reqs :
        Summarized(r) =>
            LET n == Len(tasks[r])
                k == Cardinality({i \in 1..n : Delivered2xx(r, i)})
                body == response[r][1]
            IN  /\ body.tasks_processed = n
                /\ body.tasks_successful = k
                /\ Len(body.results) = n
                /\ \A i \in 1..Len(body.results) :
                      /\ body.results[i].owner = tasks[r][i].owner
                      /\ body.results[i].task =
                             clean_task_text(tasks[r][i].task, tasks[r][i].owner)
                /\ Cardinality(RowsOfPayload(r)) = n
                /\ Cardinality({p \in RowsOfPayload(r) : ~sent_tasks[p].success}) = n - k

(***************************************************************************)
(* C6.  No delivery attempt and no SentTaskRecord INSERT happens in an     *)
(* invocation before its payload row has been committed; an invocation     *)
(* whose payload is empty ends Rejected and one whose payload store fails  *)
(* ends with a request failure, both with no payload row stored, no        *)
(* delivery attempted and no SentTaskRecord written.                       *)
(***************************************************************************)
\* r has begun a delivery or written a SentTaskRecord
TaskWorkBegun(r) ==
    \/ log[r] # <<>>
    \/ inflight[r] # {}
    \/ txn[r].rows # <<>>
    \/ \E p \in 1..Len(sent_tasks) : sent_tasks[p].by = r

\* r's payload store failed: r went past the empty-payload test and has no
\* payload id
StoreFailed(r) ==
    /\ Finished(r)
    /\ request[r].kind # "badjson"
    /\ Truthy(request[r].body)
    /\ payload_id[r] = 0

\* r's payload was empty
EmptyPayload(r) ==
    /\ Finished(r)
    /\ request[r].kind # "badjson"
    /\ ~Truthy(request[r].body)

C6_PayloadCommittedFirst ==
    \A r \in Reqs :
        /\ TaskWorkBegun(r) =>
              \E p \in PayloadRowsBy(r) : payloads[p].id = payload_id[r]
        /\ EmptyPayload(r) =>
              /\ response[r] = <<Rejected>>
              /\ PayloadRowsBy(r) = {}
              /\ ~TaskWorkBegun(r)
        /\ StoreFailed(r) =>
              /\ response[r] = <<Failure>>
              /\ PayloadRowsBy(r) = {}
              /\ ~TaskWorkBegun(r)

\* one invocation has delivered and recorded its tasks, another has ended on
\* a failed payload store
C6_Witness ==
    \E r, q \in Reqs :
        /\ Finished(r)
        /\ Posts(r, 1) # {}
        /\ RowsFor(r, 1) # {}
        /\ StoreFailed(q)

(***************************************************************************)
(* C7.  In every reachable state of the store, under any interleaving of   *)
(* concurrent invocations, the payload_id of every SentTaskRecord (and of  *)
(* every row waiting in a transaction) is the id of an existing payloads   *)
(* row, the one stored by the invocation that wrote the record.            *)
(***************************************************************************)
\* row points at a payloads row of the invocation that wrote it
RefersToOwnPayload(row) ==
    \E q \in 1..Len(payloads) :
        /\ payloads[q].id = row.payload_id
        /\ payloads[q].by = row.by

C7_RecordRefersToOwnPayload ==
    /\ \A p \in 1..Len(sent_tasks) : RefersToOwnPayload(sent_tasks[p])
    /\ \A r \in Reqs : \A p \in 1..Len(txn[r].rows) :
           /\ txn[r].rows[p].by = r
           /\ RefersToOwnPayload(txn[r].rows[p])

\* records of two invocations whose steps interleaved are in the store
C7_Witness ==
    \E p, q \in 1..Len(sent_tasks) :
        /\ sent_tasks[p].by = 1
        /\ sent_tasks[q].by = 2
        /\ sent_tasks[p].payload_id = 2
        /\ sent_tasks[q].payload_id = 1

(***************************************************************************)
(* C8.  Within one invocation tasks are handled one at a time in           *)
(* extraction order: for positions i < j the delivery attempt of ti and    *)
(* the INSERT attempt of ti's record both happen before the delivery       *)
(* attempt of tj, and never are two deliveries of one invocation in flight.*)
(***************************************************************************)
C8_OneTaskAtATime ==
    \A r \in Reqs :
        /\ Cardinality(inflight[r]) <= 1
        /\ \A p \in 1..Len(log[r]) :
              /\ log[r][p].i \in 1..Len(tasks[r])
              /\ log[r][p].data.owner = tasks[r][log[r][p].i].owner
        /\ \A j \in 1..Len(tasks[r]) :
              (Posts(r, j) # {} \/ j \in inflight[r]) =>
                  \A i \in 1..(j - 1) :
                      /\ \E p \in Posts(r, i) : \E q \in Inserts(r, i) :
                            /\ p < q
                            /\ \A pj \in Posts(r, j) : q < pj
                      /\ i \notin inflight[r]

\* an invocation has delivered and inserted two tasks
C8_Witness ==
    \E r \in Reqs :
        /\ Len(tasks[r]) = 2
        /\ Posts(r, 2) # {}
        /\ Inserts(r, 2) # {}
        /\ \E p \in Posts(r, 1) : log[r][p].out = "2xx"

(***************************************************************************)
(* C9.  Every invocation eventually ends, and ends with exactly one        *)
(* structured response (rejection, generic failure or summary): no fault   *)
(* of any step leaves the handler, for any payload shape.                  *)
(***************************************************************************)
\* r has answered at most once, and exactly once when it has ended
OneResponse(r) ==
    /\ Len(response[r]) <= 1
    /\ Finished(r) =>
          /\ Len(response[r]) = 1
          /\ response[r][1].kind \in {"rejected", "failure", "summary"}

\* r has been received
Started(r) == pc[r] # "idle"

\* An invocation that has started stays started and one that has ended stays
\* ended, so "from some moment on every started invocation has ended" says
\* that each invocation that starts eventually ends.
C9_AlwaysOneResponse ==
    /\ [](\A r \in Reqs : OneResponse(r))
    /\ <>[](\A r \in Reqs : Started(r) => Finished(r))

\* an invocation whose text field is not a string has ended with the generic
\* failure after its payload was stored
C9_Witness ==
    \E r \in Reqs :
        /\ Finished(r)
        /\ payload_id[r] # 0
        /\ response[r] = <<Failure>>

(***************************************************************************)
(* Vocabulary of the parser's property.                                    *)
(***************************************************************************)
\* a checklist marker, "-" "[" "]" with optional spaces between, starts at s
MarkerAt(t, s) ==
    /\ Tok(t, s) = "-"
    /\ \E b \in s + 1..Len(t) :
          /\ \A x \in s + 1..b - 1 : IsSpace(t[x])
          /\ t[b] = "["
          /\ \E c \in b + 1..Len(t) :
                /\ \A x \in b + 1..c - 1 : IsSpace(t[x])
                /\ t[c] = "]"

\* checklist markers are present in t
HasChecklistMarker(t) == \E s \in 1..Len(t) : MarkerAt(t, s)

\* the matches lie left to right in the text, none overlapping the next
LeftToRight(ms) ==
    \A i, j \in 1..Len(ms) :
        i < j => ms[i].start < ms[j].start /\ ms[i].end <= ms[j].start

\* every match of ms is a match of the checklist grammar where it starts
AllChecklist(t, ms) ==
    \A i \in 1..Len(ms) : MarkdownMatchAt(t, ms[i].start) = ms[i]

\* every match of ms is a match of the label grammar where it starts
AllLabel(t, ms) ==
    \A i \in 1..Len(ms) : LabelMatchAt(t, ms[i].start) = ms[i]

\* res holds the entries of the checklist matches md alone when there is one,
\* else those of the label matches lb alone
OneGrammarOnly(res, md, lb) ==
    /\ md # <<>> => res = EntriesOfMarkdown(md) /\ Len(res) = Len(md)
    /\ md = <<>> => res = EntriesOfLabel(lb) /\ Len(res) = Len(lb)
    /\ (md = <<>> /\ lb = <<>>) => res = <<>>

\* md and lb are the matches of the two grammars in t, left to right, and res
\* holds the entries of the first grammar that has a match
FirstMatchingGrammar(t, res, md, lb) ==
    /\ OneGrammarOnly(res, md, lb)
    /\ LeftToRight(md)
    /\ LeftToRight(lb)
    /\ AllChecklist(t, md)
    /\ AllLabel(t, lb)
    /\ (\E s \in 1..Len(t) : MarkdownMatchAt(t, s).ok) <=> md # <<>>
    /\ (\E s \in 1..Len(t) : LabelMatchAt(t, s).ok) <=> lb # <<>>

\* res holds the entries of the checklist matches md alone whenever the text
\* shows a checklist marker
MarkerDecides(t, res, md, lb) ==
    /\ HasChecklistMarker(t) => res = EntriesOfMarkdown(md)
    /\ ~HasChecklistMarker(t) => res = EntriesOfLabel(lb)

(***************************************************************************)
(* C10.  Original statement: whenever checklist markers are present in the *)
(* text, the result contains only checklist-grammar entries, even if       *)
(* "Task: ... Owner: ..." text also appears.                               *)
(***************************************************************************)
C10_MarkersDecideGrammar ==
    parsed # <<>> =>
        MarkerDecides(text_input, parsed[1],
                      MarkdownFindAll(text_input, 1), LabelFindAll(text_input, 1))

(***************************************************************************)
(* C10, amended.  The parser tries the checklist grammar first and the     *)
(* label grammar only when the checklist grammar yields zero matches:      *)
(* whenever the checklist grammar yields at least one match the result     *)
(* contains only checklist-grammar entries, in left-to-right source order, *)
(* even if "Task: ... Owner: ..." text also appears; entries of the two    *)
(* grammars are never mixed in one result, and when neither grammar        *)
(* matches the result is the empty sequence.                               *)
(***************************************************************************)
C10_FirstMatchingGrammarOnly ==
    parsed # <<>> =>
        FirstMatchingGrammar(text_input, parsed[1],
                             MarkdownFindAll(text_input, 1),
                             LabelFindAll(text_input, 1))

\* a text in which both grammars match has been parsed into the entries of
\* its two checklist items
C10_Witness ==
    /\ parsed # <<>>
    /\ Len(parsed[1]) = 2
    /\ Len(MarkdownFindAll(text_input, 1)) = 2
    /\ LabelFindAll(text_input, 1) # <<>>

(***************************************************************************)
(* C11.  clean_task_text removes at most one owner prefix: of the forms    *)
(* "<owner> to ", "<owner>: ", "<owner> " tried in that order, only the    *)
(* first that matches at the start of the text is removed and the others   *)
(* are not applied to what is left; the result is then trimmed and its     *)
(* first character upper-cased, the rest unchanged.                        *)
(***************************************************************************)
\* a form matches t exactly when its substitution changes t (the owner is
\* not empty); the text with only the first matching form removed
FirstFormRemoved(t, owner) ==
    IF SubOwnerTo(t, owner) # t THEN SubOwnerTo(t, owner)
    ELSE IF SubOwnerColon(t, owner) # t THEN SubOwnerColon(t, owner)
    ELSE SubOwnerSpace(t, owner)

C11_OnlyFirstFormRemoved ==
    cleaned_out # <<>> =>
        cleaned_out[1] =
            Capitalize(Strip(FirstFormRemoved(task_input.task, task_input.owner)))

(***************************************************************************)
(* C12.  For every non-empty payload (object, array or string) the text    *)
(* extraction hands the grammars a text that is a string and is not        *)
(* empty: never an empty text, never a value that is no string.            *)
(***************************************************************************)
C12_TextIsNonEmptyString ==
    extracted # <<>> =>
        /\ extracted[1].k = "str"
        /\ extracted[1].text # <<>>

(***************************************************************************)
(* C13.  All sent_tasks INSERTs of one invocation share one transaction    *)
(* that is committed once, after the last task's delivery attempt: before  *)
(* that commit a concurrent reader sees no record of the payload although  *)
(* deliveries have been made, and if the transaction does not commit no    *)
(* record of the invocation becomes durable while the summary still        *)
(* reports the deliveries.                                                 *)
(***************************************************************************)
\* the transaction of r has been committed
Committed(r) == txn[r].state = "committed"

\* the tasks of r whose delivery has been attempted
Attempted(r) == {i \in 1..Len(tasks[r]) : Posts(r, i) # {}}

\* entry i of the summary's results reports the delivery attempt of task i
ReportsDelivery(r, i) ==
    /\ i <= Len(response[r][1].results)
    /\ \A p \in Posts(r, i) :
          /\ response[r][1].results[i].task = log[r][p].data.task
          /\ response[r][1].results[i].owner = log[r][p].data.owner
          /\ response[r][1].results[i].success = (log[r][p].out \in {"2xx", "3xx"})

\* what a reader can see of r's payload at any moment
ReaderView(r) ==
    /\ ~Committed(r) => get_payload_tasks(payload_id[r]).count = 0
    /\ Committed(r) =>
          /\ Attempted(r) = 1..Len(tasks[r])
          /\ get_payload_tasks(payload_id[r]).tasks =
                 {log[r][p].data : p \in {q \in 1..Len(log[r]) :
                                              /\ log[r][q].op = "insert"
                                              /\ log[r][q].out = "ok"}}
    /\ Summarized(r) =>
          /\ Len(response[r][1].results) = Cardinality(Attempted(r))
          /\ \A i \in Attempted(r) : ReportsDelivery(r, i)

\* the records of r's payload become visible in the one step that commits
\* r's transaction, all at once, and do not change otherwise
VisibleOnlyByCommit(r) ==
    get_payload_tasks(payload_id[r]).tasks' # get_payload_tasks(payload_id[r]).tasks =>
        /\ pc[r] = "commit"
        /\ ~Committed(r)
        /\ Committed(r)'
        /\ get_payload_tasks(payload_id[r]).count = 0

C13_OneTransactionPerInvocation ==
    /\ [](\A r \in Reqs : ReaderView(r))
    /\ [][\A r \in Reqs : VisibleOnlyByCommit(r)]_vars

\* one invocation has returned its summary with a delivery reported although
\* its transaction did not commit, and another has made a delivery and an
\* INSERT that no reader sees yet
C13_Witness ==
    \E r1, r2 \in Reqs :
        /\ r1 # r2
        /\ Summarized(r1)
        /\ txn[r1].state \in {"rolledback", "failed"}
        /\ \E i \in Attempted(r1) : Delivered2xx(r1, i) /\ InsertOk(r1, i)
        /\ response[r1][1].tasks_successful >= 1
        /\ get_payload_tasks(payload_id[r1]).count = 0
        /\ ~Finished(r2)
        /\ txn[r2].state = "open"
        /\ txn[r2].rows # <<>>
        /\ Delivered2xx(r2, 1)
        /\ get_payload_tasks(payload_id[r2]).count = 0

====
